---- MODULE Spec2Model ----
(***************************************************************************)
(* A model of the streaming PGN reader of src/src/reader.rs (PgnReader and *)
(* the Visitor protocol).                                                   *)
(*                                                                         *)
(* The reader is modelled at the granularity of its control flow: pc is    *)
(* the position inside read_game and the functions it calls, stack holds   *)
(* the return positions of the calls in progress.  One step is one read on *)
(* the byte source, or one iteration of one of the scanning loops.         *)
(* Bytes are modelled as one-character strings; buffer indexes are the     *)
(* 0-based indexes of the source.                                          *)
(*                                                                         *)
(* The FilteringVisitor of src/filter/filter.rs is modelled apart, under   *)
(* SpecFilter: a caller invokes its hooks in the order of the protocol,    *)
(* with header names and values drawn from small sets.                     *)
(***************************************************************************)
EXTENDS Integers, Sequences, FiniteSets, TLC

\* ------------------------------------------------------------------ bounds

\* The chunk size (8192 in the source), scaled down so that the model
\* reaches the states in which the buffer holds a full chunk.
BUFFER_SIZE == 6

\* Longest input of arbitrary bytes.
MaxLen == 3

\* Most headers of a generated game.
MaxHeaders == 2

\* ------------------------------------------------------------------- bytes

LF == "\n"
QUOTE == "\""
BSLASH == "\\"
SP == " "
CR == "\r"
LBRACKET == "["
RBRACKET == "]"
LBRACE == "{"
RBRACE == "}"
SEMI == ";"
PERCENT == "%"

\* b"\xef\xbb\xbf"
BOM == <<"EF", "BB", "BF">>

\* SliceDeque::with_capacity(BUFFER_SIZE * 2)
Capacity == BUFFER_SIZE * 2

\* ------------------------------------------------------------ buffer views

Min(a, b) == IF a < b THEN a ELSE b

\* self.buffer[i]
At(buf, i) == buf[i + 1]

\* &self.buffer[a..b]
Slice(buf, a, b) == SubSeq(buf, a + 1, b)

\* self.buffer.move_head(n)
MoveHead(buf, n) == SubSeq(buf, n + 1, Len(buf))

\* self.buffer.starts_with(p)
StartsWith(buf, p) == Len(buf) >= Len(p) /\ SubSeq(buf, 1, Len(p)) = p

\* memchr / memchr2 / memchr3 from index `from`: the index of the first byte
\* of `buf` at or after `from` that is in `needles`, or -1 (None).
RECURSIVE MemchrFrom(_, _, _)
MemchrFrom(needles, buf, from) ==
    IF from >= Len(buf) THEN -1
    ELSE IF At(buf, from) \in needles THEN from
    ELSE MemchrFrom(needles, buf, from + 1)

Memchr(needles, buf) == MemchrFrom(needles, buf, 0)

RECURSIVE SeqsUpTo(_, _)
SeqsUpTo(S, n) ==
    IF n = 0 THEN {<<>>}
    ELSE LET shorter == SeqsUpTo(S, n - 1)
         IN  shorter \cup {Append(s, x) : s \in {t \in shorter : Len(t) = n - 1}, x \in S}

\* ------------------------------------------------------------------ inputs

\* The bytes the reader tells apart, and one ordinary byte.
Alphabet == {LBRACKET, RBRACKET, QUOTE, BSLASH, LF, SP, PERCENT, LBRACE, RBRACE, SEMI, "a"}

\* Streams of arbitrary bytes.
RawInputs == SeqsUpTo(Alphabet, MaxLen)

RawDocs == [kind : {"raw"}, bytes : RawInputs, games : {<<>>}]

\* Streams of games.  A header is `[tag "val"]` ("pair", with or without the
\* space before the quote) or a line `[tag` without a quoted value ("bare");
\* a game is its headers, a blank line when it has headers, and its move
\* text, which ends its last line with a line-feed; `lead` are bytes put
\* before the game.  Games are separated by exactly one blank line.
Repeat(b, n) == [i \in 1..n |-> b]

\* A value and a tag too long for a full chunk to hold the header.
LongBytes == Repeat("b", BUFFER_SIZE)

PairHeaders ==
    [form : {"pair"}, tag : {<<"a">>}, sp : BOOLEAN,
     val : {<<>>, <<"b">>, <<BSLASH, QUOTE>>, LongBytes}]

BareHeaders == [form : {"bare"}, tag : {<<"a", SP, "b">>, LongBytes}, sp : {FALSE}, val : {<<>>}]

RenderHeader(hd) ==
    IF hd.form = "pair"
    THEN <<LBRACKET>> \o hd.tag \o (IF hd.sp THEN <<SP>> ELSE <<>>)
            \o <<QUOTE>> \o hd.val \o <<QUOTE, RBRACKET, LF>>
    ELSE <<LBRACKET>> \o hd.tag \o <<LF>>

RECURSIVE RenderHeaders(_)
RenderHeaders(hs) ==
    IF hs = <<>> THEN <<>> ELSE RenderHeader(Head(hs)) \o RenderHeaders(Tail(hs))

RenderGame(g) ==
    g.lead \o RenderHeaders(g.hs) \o (IF g.hs = <<>> THEN <<>> ELSE <<LF>>) \o g.mt

RECURSIVE RenderGames(_)
RenderGames(gs) ==
    IF gs = <<>> THEN <<>>
    ELSE IF Len(gs) = 1 THEN RenderGame(gs[1])
    ELSE RenderGame(gs[1]) \o <<LF>> \o RenderGames(Tail(gs))

\* One game with up to MaxHeaders headers of every kind.
OneGames ==
    [lead : {<<>>}, hs : SeqsUpTo(PairHeaders \cup BareHeaders, MaxHeaders), mt : {<<"a", LF>>}]

\* Move texts: a line of moves; moves and a `;` comment; a brace comment
\* that starts a line and holds a blank line; a `;` comment that starts a
\* line and holds a `{`.
LineOfMoves == <<"a", LF>>
MovesAndComment == <<"a", SEMI, LBRACE, LF>>
BraceCommentLine == <<"a", LF, LBRACE, LF, LF, RBRACE, LF>>
CommentLine == <<"a", LF, SEMI, LBRACE, LF>>

Movetexts == {LineOfMoves, MovesAndComment, BraceCommentLine, CommentLine}

ShortHeader == [form |-> "pair", tag |-> <<"a">>, sp |-> TRUE, val |-> <<"b">>]

\* Games for streams of two: at most one header, with or without a
\* byte-order mark before the game.
PairGames == [lead : {<<>>, BOM}, hs : {<<>>, <<ShortHeader>>}, mt : Movetexts]

GameDocs ==
    [kind : {"pgn"}, bytes : {<<>>},
     games : {<<g>> : g \in OneGames} \cup {<<g1, g2>> : g1 \in PairGames, g2 \in PairGames}]

Docs == RawDocs \cup GameDocs

\* The bytes of the whole stream.
Render(d) == IF d.kind = "raw" THEN d.bytes ELSE RenderGames(d.games)

\* ------------------------------------------------------------------- state

VARIABLES
    doc,      \* what the stream was generated from (never changes)
    inner,    \* PgnReader.inner: the bytes the source has not yet delivered
    buffer,   \* PgnReader.buffer: the unconsumed bytes
    pc,       \* position in read_game and its callees; "idle" between calls
    stack,    \* return positions of the calls in progress
    needle,   \* argument of the skip_until in progress
    ret,      \* value returned by the last fill_buffer
    io,       \* what the fill_buffer in progress, or the last one, did on the
              \* source: "none" (no read), "read", "eof", "err"
    failed,   \* a read of the current read_game call returned an error
    oob,      \* an index, slice or head advance was out of range
    hooks,    \* visitor hooks fired by the current (or last) read_game call
    result,   \* what the last read_game call returned: "Some", "None", "Err"; "" before
    log       \* the finished calls, in order

\* The state of the reader.
readerVars ==
    <<doc, inner, buffer, pc, stack, needle, ret, io, failed, oob, hooks, result, log>>

\* The state of a FilteringVisitor and of the caller that drives its hooks.
VARIABLES
    config,        \* FilteringVisitor.config: the thresholds (never changes)
    should_write,  \* FilteringVisitor.should_write: the pass flag
    signal,        \* what the last end_headers returned: "Skip(true)", "Skip(false)"; "" before
    phase,         \* where the caller is in the hook protocol
    games,         \* begin_game calls so far
    headers,       \* header calls of the current game
    call           \* the last header call: its tag name, its value, the flag before it

filterVars == <<config, should_write, signal, phase, games, headers, call>>

vars == <<readerVars, filterVars>>

NoCall == [name |-> "", value |-> <<>>, before |-> TRUE]

\* FilteringVisitor::new with the thresholds of `c`.
FilterNew(c) ==
    /\ config = c
    /\ should_write = TRUE
    /\ signal = ""
    /\ phase = "idle"
    /\ games = 0
    /\ headers = 0
    /\ call = NoCall

\* Thresholds under which no numeric or bot header of the model's values is
\* below a minimum; the reader runs with a visitor whose state it never reads.
NoFilter == [time_control_min |-> 0, white_elo_min |-> 0, black_elo_min |-> 0, exclude_bots |-> FALSE]

Input == Render(doc)

Hook(name) == [h |-> name, key |-> <<>>, value |-> <<>>]
HeaderHook(k, v) == [h |-> "header", key |-> k, value |-> v]

\* What a finished call leaves in the log.
Finished(res, hs, buf, inn, f) ==
    [res |-> res, hooks |-> hs, left |-> Len(buf) + Len(inn), failed |-> f]

Init ==
    /\ doc \in Docs
    /\ inner = Render(doc)
    /\ buffer = <<>>
    /\ pc = "idle"
    /\ stack = <<>>
    /\ needle = LF
    /\ ret = FALSE
    /\ io = "none"
    /\ failed = FALSE
    /\ oob = FALSE
    /\ hooks = <<>>
    /\ result = ""
    /\ log = <<>>
    /\ FilterNew(NoFilter)

\* ------------------------------------------------------------- fill_buffer

\* The callers of fill_buffer: `while self.fill_buffer()? { ... }` is a jump
\* to "fill" with the loop body as the return position.
CallFill(after, rest) ==
    /\ pc' = "fill"
    /\ stack' = <<after>> \o rest

\* Return from the function in progress.
Return ==
    /\ pc' = Head(stack)
    /\ stack' = Tail(stack)

\* `?` on an error of the source: the error is returned by every caller up
\* to read_game, except by the skip_until of line 210, whose result
\* skip_movetext drops.
DropsError(label) == label = "sm_percent"

RECURSIVE Unwind(_)
Unwind(st) ==
    IF st = <<>> THEN <<>>
    ELSE IF DropsError(Head(st)) THEN st
    ELSE Unwind(Tail(st))

\* fill_buffer, loop test false: a full chunk is buffered.  Ok(!is_empty()).
FillBufferFull ==
    /\ pc = "fill"
    /\ ~(Len(buffer) < BUFFER_SIZE)
    /\ ret' = (buffer # <<>>)
    /\ Return
    /\ UNCHANGED <<filterVars, doc, inner, buffer, needle, io, failed, oob, hooks, result, log>>

\* Mutant: the read is offered a slice as long as the whole capacity,
\* whatever is buffered.
FillBufferReadNoRoom ==
    /\ pc = "fill"
    /\ Len(buffer) < BUFFER_SIZE
    /\ inner # <<>>
    /\ \E n \in 1..Min(Len(inner), Capacity) :
          /\ buffer' = buffer \o SubSeq(inner, 1, n)
          /\ inner' = SubSeq(inner, n + 1, Len(inner))
    /\ io' = "read"
    /\ UNCHANGED <<filterVars, doc, pc, stack, needle, ret, failed, oob, hooks, result, log>>

\* Mutant: the loop test is `<=`, so a buffer holding exactly one chunk is
\* filled again.
FillBufferReadOffByOne ==
    /\ pc = "fill"
    /\ Len(buffer) <= BUFFER_SIZE
    /\ \E n \in 1..Min(Len(inner), Capacity - Len(buffer)) :
          /\ buffer' = buffer \o SubSeq(inner, 1, n)
          /\ inner' = SubSeq(inner, n + 1, Len(inner))
    /\ io' = "read"
    /\ UNCHANGED <<filterVars, doc, pc, stack, needle, ret, failed, oob, hooks, result, log>>

\* fill_buffer, one iteration: self.inner.read(remainder) returns n > 0 bytes,
\* at most remainder.len() of them.
FillBufferRead ==
    /\ pc = "fill"
    /\ Len(buffer) < BUFFER_SIZE
    /\ \E n \in 1..Min(Len(inner), Capacity - Len(buffer)) :
          /\ buffer' = buffer \o SubSeq(inner, 1, n)
          /\ inner' = SubSeq(inner, n + 1, Len(inner))
    /\ io' = "read"
    /\ UNCHANGED <<filterVars, doc, pc, stack, needle, ret, failed, oob, hooks, result, log>>

\* fill_buffer, one iteration: the read returns 0 (end of input), break.
FillBufferEof ==
    /\ pc = "fill"
    /\ Len(buffer) < BUFFER_SIZE
    /\ inner = <<>>
    /\ ret' = (buffer # <<>>)
    /\ io' = "eof"
    /\ Return
    /\ UNCHANGED <<filterVars, doc, inner, buffer, needle, failed, oob, hooks, result, log>>

\* fill_buffer, one iteration: the read returns an error, which `?` returns
\* to the caller.
FillBufferErr ==
    /\ pc = "fill"
    /\ Len(buffer) < BUFFER_SIZE
    /\ io' = "err"
    /\ failed' = TRUE
    /\ LET st == Unwind(stack)
       IN  IF st = <<>>
           THEN /\ pc' = "idle"
                /\ stack' = <<>>
                /\ result' = "Err"
                /\ log' = Append(log, Finished("Err", hooks, buffer, inner, TRUE))
           ELSE /\ pc' = Head(st)
                /\ stack' = Tail(st)
                /\ UNCHANGED <<result, log>>
    /\ UNCHANGED <<filterVars, doc, inner, buffer, needle, ret, oob, hooks>>

\* --------------------------------------------------------------- read_game

\* The caller: read_game is called again until it returns Ok(None) or Err.
\* read_game starts with skip_bom, which starts with fill_buffer.
ReadGame ==
    /\ pc = "idle"
    /\ result \in {"", "Some"}
    /\ hooks' = <<>>
    /\ failed' = FALSE
    /\ io' = "none"
    /\ CallFill("skip_bom", <<>>)
    /\ UNCHANGED <<filterVars, doc, inner, buffer, needle, ret, oob, result, log>>

\* ---------------------------------------------------------------- skip_bom

\* if self.buffer.starts_with(b"\xef\xbb\xbf") { self.buffer.move_head(3) }
SkipBomBuffer(buf) == IF StartsWith(buf, BOM) THEN MoveHead(buf, 3) ELSE buf

\* skip_bom after its fill_buffer, then read_game calls skip_whitespace.
SkipBom ==
    /\ pc = "skip_bom"
    /\ buffer' = SkipBomBuffer(buffer)
    /\ io' = "none"
    /\ CallFill("sw_body", <<"rg_check">> \o stack)
    /\ UNCHANGED <<filterVars, doc, inner, needle, ret, failed, oob, hooks, result, log>>

\* -------------------------------------------------------------- skip_until

\* self.skip_until(n), returning to the positions `after`.
CallSkipUntil(n, after) ==
    /\ needle' = n
    /\ CallFill("su_body", after \o stack)

\* One iteration of skip_until's loop, after its fill_buffer.
SkipUntil ==
    /\ pc = "su_body"
    /\ io' = "none"
    /\ IF ~ret
       THEN /\ Return
            /\ UNCHANGED buffer
       ELSE LET pos == Memchr({needle}, buffer)
            IN  IF pos >= 0
                THEN /\ buffer' = MoveHead(buffer, pos + 1)
                     /\ Return
                ELSE /\ buffer' = <<>>
                     /\ CallFill("su_body", stack)
    /\ UNCHANGED <<filterVars, doc, inner, needle, ret, failed, oob, hooks, result, log>>

\* --------------------------------------------------------- skip_whitespace

\* b' ' | b'\t' | b'\r' | b'\n'
Whitespace == {SP, "\t", CR, LF}

\* skip_whitespace: fill_buffer returned false.
SkipWhitespaceEnd ==
    /\ pc = "sw_body"
    /\ ~ret
    /\ io' = "none"
    /\ Return
    /\ UNCHANGED <<filterVars, doc, inner, buffer, needle, ret, failed, oob, hooks, result, log>>

\* skip_whitespace: one pop_front of the inner loop.
SkipWhitespacePop ==
    /\ \/ pc = "sw_body" /\ ret
       \/ pc = "sw_pop"
    /\ io' = "none"
    /\ IF buffer = <<>>
       THEN /\ CallFill("sw_body", stack)
            /\ UNCHANGED <<buffer, needle>>
       ELSE LET ch == Head(buffer)
            IN  IF ch \in Whitespace
                THEN /\ buffer' = Tail(buffer)
                     /\ pc' = "sw_pop"
                     /\ UNCHANGED <<stack, needle>>
                ELSE IF ch = PERCENT
                THEN /\ buffer' = Tail(buffer)
                     /\ CallSkipUntil(LF, <<"sw_pop">>)
                ELSE /\ Return
                     /\ UNCHANGED <<buffer, needle>>
    /\ UNCHANGED <<filterVars, doc, inner, ret, failed, oob, hooks, result, log>>

\* ---------------------------------------------------------------- skip_ket

\* b' ' | b'\t' | b'\r' | b']'
KetSkipped == {SP, "\t", CR, RBRACKET}

\* skip_ket: fill_buffer returned false.
SkipKetEnd ==
    /\ pc = "sk_body"
    /\ ~ret
    /\ io' = "none"
    /\ Return
    /\ UNCHANGED <<filterVars, doc, inner, buffer, needle, ret, failed, oob, hooks, result, log>>

\* skip_ket: one pop_front of the inner loop.
SkipKetPop ==
    /\ \/ pc = "sk_body" /\ ret
       \/ pc = "sk_pop"
    /\ io' = "none"
    /\ IF buffer = <<>>
       THEN /\ CallFill("sk_body", stack)
            /\ UNCHANGED <<buffer, needle>>
       ELSE LET ch == Head(buffer)
            IN  IF ch \in KetSkipped
                THEN /\ buffer' = Tail(buffer)
                     /\ pc' = "sk_pop"
                     /\ UNCHANGED <<stack, needle>>
                ELSE IF ch = PERCENT
                THEN /\ buffer' = Tail(buffer)
                     /\ CallSkipUntil(LF, <<"sk_pop">>)
                ELSE IF ch = LF
                THEN /\ buffer' = Tail(buffer)
                     /\ Return
                     /\ UNCHANGED needle
                ELSE /\ Return
                     /\ UNCHANGED <<buffer, needle>>
    /\ UNCHANGED <<filterVars, doc, inner, ret, failed, oob, hooks, result, log>>

\* ------------------------------------------------------------ read_headers

\* Mutant: only the backslash is skipped, not the character it escapes.
SkipEscapedOneByte(buf, at) == Min(at + 1, Len(buf))

\* Mutant: the escaped character is skipped without the clamp to the length
\* of the buffer.
SkipEscapedUnclamped(buf, at) == at + 2

\* Skip escaped character: min(right_quote + delta + 2, self.buffer.len()),
\* `at` being right_quote + delta, the index of the backslash.
SkipEscaped(buf, at) == Min(at + 2, Len(buf))

\* The loop that looks for the end of the value, from index right_quote:
\* [right_quote, consumed, oob], oob when &self.buffer[right_quote..] is
\* out of range.
RECURSIVE ScanValue(_, _)
ScanValue(buf, right_quote) ==
    IF right_quote > Len(buf)
    THEN [right_quote |-> right_quote, consumed |-> right_quote, oob |-> TRUE]
    ELSE LET at == MemchrFrom({BSLASH, QUOTE, LF}, buf, right_quote)
         IN  IF at = -1
             THEN [right_quote |-> Len(buf), consumed |-> Len(buf), oob |-> FALSE]
             ELSE IF At(buf, at) = QUOTE
             THEN [right_quote |-> at, consumed |-> at + 1, oob |-> FALSE]
             ELSE IF At(buf, at) = LF
             THEN [right_quote |-> at, consumed |-> at, oob |-> FALSE]
             ELSE ScanValue(buf, SkipEscaped(buf, at))

\* let space = if left_quote > 0 && self.buffer[left_quote - 1] == b' ' ...
TagEnd(buf, left_quote) ==
    IF left_quote > 0 /\ At(buf, left_quote - 1) = SP THEN left_quote - 1 ELSE left_quote

\* Mutant: the head is advanced to the line-feed, not past it.
BareHeaderKeepsLf(buf, eol) ==
    [kind |-> "eol", key |-> Slice(buf, 0, eol), value |-> <<>>, consumed |-> eol, oob |-> FALSE]

\* Some(eol): visitor.header(&self.buffer[..eol], RawHeader(b"")) and
\* move_head(eol + 1).
BareHeader(buf, eol) ==
    [kind |-> "eol", key |-> Slice(buf, 0, eol), value |-> <<>>, consumed |-> eol + 1, oob |-> FALSE]

\* What read_headers does with the bytes `buf` that follow a `[`:
\*   "pair": a quote comes first; the header event and the bytes consumed;
\*   "eol":  a line-feed comes first; a header event with an empty value;
\*   "none": neither is buffered; the line is skipped, no event.
ParseHeader(buf) ==
    LET found == Memchr({QUOTE, LF}, buf)
    IN  IF found = -1
        THEN [kind |-> "none", key |-> <<>>, value |-> <<>>, consumed |-> 0, oob |-> FALSE]
        ELSE IF At(buf, found) = QUOTE
        THEN LET value_start == found + 1
                 scan == ScanValue(buf, value_start)
                 bad == scan.oob \/ scan.right_quote > Len(buf)
                           \/ value_start > scan.right_quote \/ scan.consumed > Len(buf)
             IN  [kind |-> "pair",
                  key |-> Slice(buf, 0, TagEnd(buf, found)),
                  value |-> IF bad THEN <<>> ELSE Slice(buf, value_start, scan.right_quote),
                  consumed |-> scan.consumed,
                  oob |-> bad]
        ELSE BareHeader(buf, found)

\* read_headers: fill_buffer returned false.
ReadHeadersEnd ==
    /\ pc = "rh_body"
    /\ ~ret
    /\ io' = "none"
    /\ Return
    /\ UNCHANGED <<filterVars, doc, inner, buffer, needle, ret, failed, oob, hooks, result, log>>

\* read_headers: the popped byte is `[`.
ReadHeadersTag ==
    /\ pc = "rh_body"
    /\ ret
    /\ Head(buffer) = LBRACKET
    /\ io' = "none"
    /\ LET rest == Tail(buffer)
           hd == ParseHeader(rest)
       IN  IF hd.kind = "none"
           THEN /\ buffer' = rest
                /\ CallSkipUntil(LF, <<"fill", "rh_body">>)
                /\ UNCHANGED <<hooks, oob>>
           ELSE IF hd.kind = "eol"
           THEN /\ hooks' = Append(hooks, HeaderHook(hd.key, hd.value))
                /\ buffer' = MoveHead(rest, hd.consumed)
                /\ CallFill("rh_body", stack)
                /\ UNCHANGED <<needle, oob>>
           ELSE /\ hooks' = Append(hooks, HeaderHook(hd.key, hd.value))
                /\ buffer' = MoveHead(rest, hd.consumed)
                /\ oob' = (oob \/ hd.oob)
                /\ CallFill("sk_body", <<"fill", "rh_body">> \o stack)
                /\ UNCHANGED needle
    /\ UNCHANGED <<filterVars, doc, inner, ret, failed, result, log>>

\* read_headers: the popped byte is `%`, or any other byte, which is pushed
\* back and ends the header block.
ReadHeadersOther ==
    /\ pc = "rh_body"
    /\ ret
    /\ Head(buffer) # LBRACKET
    /\ io' = "none"
    /\ IF Head(buffer) = PERCENT
       THEN /\ buffer' = Tail(buffer)
            /\ CallSkipUntil(LF, <<"fill", "rh_body">>)
       ELSE /\ Return
            /\ UNCHANGED <<buffer, needle>>
    /\ UNCHANGED <<filterVars, doc, inner, ret, failed, oob, hooks, result, log>>

\* ----------------------------------------------------------- skip_movetext

\* memchr3(b'\n', b'{', b';', ...).unwrap_or_else(|| self.buffer.len())
BulkAdvance(buf) ==
    LET at == Memchr({LF, LBRACE, SEMI}, buf)
    IN  IF at = -1 THEN Len(buf) ELSE at

\* skip_movetext: fill_buffer returned false.
SkipMovetextEnd ==
    /\ pc = "sm_body"
    /\ ~ret
    /\ io' = "none"
    /\ Return
    /\ UNCHANGED <<filterVars, doc, inner, buffer, needle, ret, failed, oob, hooks, result, log>>

\* skip_movetext: the popped byte is `{` or `;`.
SkipMovetextComment ==
    /\ pc = "sm_body"
    /\ ret
    /\ Head(buffer) \in {LBRACE, SEMI}
    /\ io' = "none"
    /\ buffer' = Tail(buffer)
    /\ IF Head(buffer) = LBRACE
       THEN CallSkipUntil(RBRACE, <<"fill", "sm_body">>)
       ELSE CallSkipUntil(LF, <<"sm_semicolon">>)
    /\ UNCHANGED <<filterVars, doc, inner, ret, failed, oob, hooks, result, log>>

\* skip_movetext: the popped byte is a line-feed; the next byte is popped
\* without a fill_buffer.
SkipMovetextLine ==
    /\ pc = "sm_body"
    /\ ret
    /\ Head(buffer) = LF
    /\ io' = "none"
    /\ LET rest == Tail(buffer)
       IN  IF rest = <<>>
           THEN /\ buffer' = rest
                /\ CallFill("sm_body", stack)
                /\ UNCHANGED needle
           ELSE IF Head(rest) = PERCENT
           THEN /\ buffer' = Tail(rest)
                /\ CallSkipUntil(LF, <<"sm_percent">>)
           ELSE IF Head(rest) = LF
           THEN /\ buffer' = Tail(rest)
                /\ Return
                /\ UNCHANGED needle
           ELSE IF Head(rest) = LBRACKET
           THEN /\ buffer' = rest
                /\ Return
                /\ UNCHANGED needle
           ELSE /\ buffer' = Tail(rest)
                /\ CallFill("sm_body", stack)
                /\ UNCHANGED needle
    /\ UNCHANGED <<filterVars, doc, inner, ret, failed, oob, hooks, result, log>>

\* Mutant: the popped byte is pushed back and the head is not advanced.
SkipMovetextBulkPushesBack ==
    /\ pc = "sm_body"
    /\ ret
    /\ Head(buffer) \notin {LBRACE, SEMI, LF}
    /\ io' = "none"
    /\ buffer' = buffer
    /\ CallFill("sm_body", stack)
    /\ UNCHANGED <<filterVars, doc, inner, needle, ret, failed, oob, hooks, result, log>>

\* skip_movetext: any other byte; advance to the next line-feed, `{` or `;`.
SkipMovetextBulk ==
    /\ pc = "sm_body"
    /\ ret
    /\ Head(buffer) \notin {LBRACE, SEMI, LF}
    /\ io' = "none"
    /\ buffer' = MoveHead(Tail(buffer), BulkAdvance(Tail(buffer)))
    /\ CallFill("sm_body", stack)
    /\ UNCHANGED <<filterVars, doc, inner, needle, ret, failed, oob, hooks, result, log>>

\* skip_movetext after the skip_until of a `;` comment or of a `%` line:
\* self.buffer.push_front(b'\n'), and the loop goes on.
SkipMovetextPushLf ==
    /\ pc \in {"sm_semicolon", "sm_percent"}
    /\ io' = "none"
    /\ buffer' = <<LF>> \o buffer
    /\ CallFill("sm_body", stack)
    /\ UNCHANGED <<filterVars, doc, inner, needle, ret, failed, oob, hooks, result, log>>

\* ------------------------------------------------- read_game, continued

\* if !self.fill_buffer()? { return Ok(None); }
ReadGameCheck ==
    /\ pc = "rg_check"
    /\ io' = "none"
    /\ CallFill("rg_begin", stack)
    /\ UNCHANGED <<filterVars, doc, inner, buffer, needle, ret, failed, oob, hooks, result, log>>

\* Mutant: begin_game is called before the test for the end of the input.
ReadGameBeginsBeforeCheck ==
    /\ pc = "rg_begin"
    /\ io' = "none"
    /\ IF ~ret
       THEN /\ pc' = "idle"
            /\ stack' = <<>>
            /\ result' = "None"
            /\ hooks' = Append(hooks, Hook("begin_game"))
            /\ log' = Append(log, Finished("None", hooks', buffer, inner, failed))
       ELSE /\ hooks' = hooks \o <<Hook("begin_game"), Hook("begin_headers")>>
            /\ CallFill("rh_body", <<"rg_end_headers">> \o stack)
            /\ UNCHANGED <<result, log>>
    /\ UNCHANGED <<filterVars, doc, inner, buffer, needle, ret, failed, oob>>

\* Ok(None), or begin_game, begin_headers and the call of read_headers.
ReadGameBegin ==
    /\ pc = "rg_begin"
    /\ io' = "none"
    /\ IF ~ret
       THEN /\ pc' = "idle"
            /\ stack' = <<>>
            /\ result' = "None"
            /\ log' = Append(log, Finished("None", hooks, buffer, inner, failed))
            /\ UNCHANGED hooks
       ELSE /\ hooks' = hooks \o <<Hook("begin_game"), Hook("begin_headers")>>
            /\ CallFill("rh_body", <<"rg_end_headers">> \o stack)
            /\ UNCHANGED <<result, log>>
    /\ UNCHANGED <<filterVars, doc, inner, buffer, needle, ret, failed, oob>>

\* Mutant: end_headers is called only on the branch that was meant to
\* tokenize the move text.
EndHeadersOnOneBranch(skip) ==
    /\ pc = "rg_end_headers"
    /\ io' = "none"
    /\ hooks' = IF skip THEN hooks ELSE Append(hooks, Hook("end_headers"))
    /\ CallFill("sm_body", <<"rg_trailing">> \o stack)
    /\ UNCHANGED <<filterVars, doc, inner, buffer, needle, ret, failed, oob, result, log>>

\* Mutant: a Skip(true) from end_headers abandons the game where it stands;
\* the move text is left in the buffer.
EndHeadersAbandonsGame(skip) ==
    /\ pc = "rg_end_headers"
    /\ io' = "none"
    /\ hooks' = Append(hooks, Hook("end_headers"))
    /\ IF ~skip
       THEN CallFill("sm_body", <<"rg_trailing">> \o stack)
       ELSE CallFill("sw_body", <<"rg_end_game">> \o stack)
    /\ UNCHANGED <<filterVars, doc, inner, buffer, needle, ret, failed, oob, result, log>>

\* visitor.end_headers() returns Skip(skip); both branches call skip_movetext.
EndHeaders(skip) ==
    /\ pc = "rg_end_headers"
    /\ io' = "none"
    /\ hooks' = Append(hooks, Hook("end_headers"))
    /\ IF ~skip
       THEN CallFill("sm_body", <<"rg_trailing">> \o stack)
       ELSE CallFill("sm_body", <<"rg_trailing">> \o stack)
    /\ UNCHANGED <<filterVars, doc, inner, buffer, needle, ret, failed, oob, result, log>>

\* self.skip_whitespace()? after the move text.
ReadGameTrailing ==
    /\ pc = "rg_trailing"
    /\ io' = "none"
    /\ CallFill("sw_body", <<"rg_end_game">> \o stack)
    /\ UNCHANGED <<filterVars, doc, inner, buffer, needle, ret, failed, oob, hooks, result, log>>

\* Ok(Some(visitor.end_game()))
EndGame ==
    /\ pc = "rg_end_game"
    /\ io' = "none"
    /\ hooks' = Append(hooks, Hook("end_game"))
    /\ pc' = "idle"
    /\ stack' = <<>>
    /\ result' = "Some"
    /\ log' = Append(log, Finished("Some", hooks', buffer, inner, failed))
    /\ UNCHANGED <<filterVars, doc, inner, buffer, needle, ret, failed, oob>>

Next ==
    \/ ReadGame
    \/ FillBufferFull
    \/ FillBufferRead
    \/ FillBufferEof
    \/ FillBufferErr
    \/ SkipBom
    \/ SkipUntil
    \/ SkipWhitespaceEnd
    \/ SkipWhitespacePop
    \/ SkipKetEnd
    \/ SkipKetPop
    \/ ReadHeadersEnd
    \/ ReadHeadersTag
    \/ ReadHeadersOther
    \/ SkipMovetextEnd
    \/ SkipMovetextComment
    \/ SkipMovetextLine
    \/ SkipMovetextBulk
    \/ SkipMovetextPushLf
    \/ ReadGameCheck
    \/ ReadGameBegin
    \/ \E skip \in BOOLEAN : EndHeaders(skip)
    \/ ReadGameTrailing
    \/ EndGame

Spec == Init /\ [][Next]_vars

\* The caller goes on calling read_game, and a call in progress goes on
\* running, until a call has returned Ok(None) or an error.
SpecLive == Spec /\ WF_vars(Next)

\* ========================================================= FilteringVisitor

\* Games a caller feeds to the visitor.
MaxGames == 2

\* u16::MAX, the largest value parse::<u16>() returns.
U16_MAX == 65535

\* A byte that occurs in no UTF-8 text.
XFF == "xFF"

Digits == <<"0", "1", "2", "3", "4", "5", "6", "7", "8", "9">>

IsDigit(c) == \E i \in 1..Len(Digits) : Digits[i] = c

DigitValue(c) == (CHOOSE i \in 1..Len(Digits) : Digits[i] = c) - 1

\* std::str::from_utf8(tag_value).unwrap_or(""): the value, or the empty
\* string when the bytes are not UTF-8.
FromUtf8OrEmpty(v) ==
    IF \A i \in 1..Len(v) : v[i] # XFF THEN v ELSE <<>>

\* The digit loop of parse::<u16>(): checked multiply and add; -1 is Err.
RECURSIVE ParseDigits(_, _)
ParseDigits(s, acc) ==
    IF s = <<>> THEN acc
    ELSE IF ~IsDigit(Head(s)) THEN -1
    ELSE IF acc * 10 + DigitValue(Head(s)) > U16_MAX THEN -1
    ELSE ParseDigits(Tail(s), acc * 10 + DigitValue(Head(s)))

\* str::parse::<u16>(): Err on an empty string and on a lone sign; one
\* leading `+` is accepted, a `-` is not a digit; -1 is Err.
ParseU16(s) ==
    IF s = <<>> THEN -1
    ELSE IF Len(s) = 1 /\ Head(s) \in {"+", "-"} THEN -1
    ELSE IF Head(s) = "+" THEN ParseDigits(Tail(s), 0)
    ELSE ParseDigits(s, 0)

Uppercase == <<"B", "O", "T", "S">>
Lowercase == <<"b", "o", "t", "s">>

\* str::to_lowercase()
ToLowercase(s) ==
    [i \in 1..Len(s) |->
        IF \E k \in 1..Len(Uppercase) : Uppercase[k] = s[i]
        THEN Lowercase[CHOOSE k \in 1..Len(Uppercase) : Uppercase[k] = s[i]]
        ELSE s[i]]

\* str::contains(pattern)
Contains(s, p) ==
    \E i \in 0..(Len(s) - Len(p)) : SubSeq(s, i + 1, i + Len(p)) = p

\* The thresholds a visitor is built with.
Configs ==
    [time_control_min : {0, 180}, white_elo_min : {0, 1500}, black_elo_min : {0, 1500},
     exclude_bots : BOOLEAN]

TagNames ==
    {"TimeControl", "WhiteElo", "BlackElo", "White", "Black", "WhiteTitle", "BlackTitle",
     "Event"}

\* Header values: numbers around the thresholds and around u16::MAX, text
\* that is no number, names with and without "bot", bytes that are not UTF-8.
TagValues ==
    { <<>>,
      <<"6", "0">>, <<"1", "8", "0">>, <<"1", "4", "9", "9">>, <<"1", "5", "0", "0">>,
      <<"6", "5", "5", "3", "5">>, <<"6", "5", "5", "3", "6">>,
      <<"+", "5">>, <<"-", "1">>, <<"6", "0", "+", "5">>,
      <<"S", "o", "m", "e", "B", "o", "t">>, <<"B", "O", "T">>, <<"b", "o", "t">>,
      <<"B", "o">>, <<XFF, "b", "o", "t">>, <<XFF, "1", "8", "0">> }

\* A reader that is not running: the hooks of the visitor are called directly.
ReaderUnused ==
    /\ doc = [kind |-> "raw", bytes |-> <<>>]
    /\ inner = <<>>
    /\ buffer = <<>>
    /\ pc = "done"
    /\ stack = <<>>
    /\ needle = LF
    /\ ret = FALSE
    /\ io = "none"
    /\ failed = FALSE
    /\ oob = FALSE
    /\ hooks = <<>>
    /\ result = ""
    /\ log = <<>>

FilterInit ==
    /\ ReaderUnused
    /\ \E c \in Configs : FilterNew(c)

\* The arm of a numeric tag: the flag is cleared when the value does not
\* parse as a u16 or is below `min`.
NumericArm(tag_value, min, flag) ==
    LET n == ParseU16(FromUtf8OrEmpty(tag_value))
    IN  IF n # -1
        THEN IF n < min THEN FALSE ELSE flag
        ELSE FALSE

\* FilteringVisitor::header: should_write after the call.
HeaderFlag(tag_name, tag_value, flag) ==
    IF tag_name = "TimeControl"
    THEN NumericArm(tag_value, config.time_control_min, flag)
    ELSE IF tag_name \in {"WhiteElo", "BlackElo"}
    THEN NumericArm(tag_value,
                    IF tag_name = "WhiteElo" THEN config.white_elo_min
                    ELSE config.black_elo_min,
                    flag)
    ELSE IF tag_name \in {"White", "Black"}
    THEN IF config.exclude_bots
            /\ Contains(ToLowercase(FromUtf8OrEmpty(tag_value)), <<"b", "o", "t">>)
         THEN FALSE ELSE flag
    ELSE IF tag_name \in {"WhiteTitle", "BlackTitle"}
    THEN IF config.exclude_bots /\ tag_value = <<"B", "O", "T">>
         THEN FALSE ELSE flag
    ELSE flag

\* Mutant: begin_game starts every game with the flag set.
FilterBeginGameResets ==
    /\ phase = "idle"
    /\ games < MaxGames
    /\ phase' = "game"
    /\ games' = games + 1
    /\ should_write' = TRUE
    /\ UNCHANGED <<readerVars, config, signal, headers, call>>

\* begin_game: FilteringVisitor does not override the hook of the trait,
\* which does nothing.
FilterBeginGame ==
    /\ phase = "idle"
    /\ games < MaxGames
    /\ phase' = "game"
    /\ games' = games + 1
    /\ UNCHANGED <<readerVars, config, should_write, signal, headers, call>>

\* begin_headers: the hook of the trait, which does nothing.
FilterBeginHeaders ==
    /\ phase = "game"
    /\ phase' = "headers"
    /\ headers' = 0
    /\ UNCHANGED <<readerVars, config, should_write, signal, games, call>>

\* FilteringVisitor::header
FilterHeader(tag_name, tag_value) ==
    /\ phase = "headers"
    /\ headers < MaxHeaders
    /\ headers' = headers + 1
    /\ should_write' = HeaderFlag(tag_name, tag_value, should_write)
    /\ call' = [name |-> tag_name, value |-> tag_value, before |-> should_write]
    /\ UNCHANGED <<readerVars, config, signal, phase, games>>

\* FilteringVisitor::end_headers
FilterEndHeaders ==
    /\ phase = "headers"
    /\ phase' = "movetext"
    /\ signal' = IF ~should_write THEN "Skip(false)" ELSE "Skip(true)"
    /\ UNCHANGED <<readerVars, config, should_write, games, headers, call>>

\* FilteringVisitor::end_game
FilterEndGame ==
    /\ phase = "movetext"
    /\ phase' = "idle"
    /\ UNCHANGED <<readerVars, config, should_write, signal, games, headers, call>>

FilterNext ==
    \/ FilterBeginGame
    \/ FilterBeginHeaders
    \/ \E tag_name \in TagNames, tag_value \in TagValues : FilterHeader(tag_name, tag_value)
    \/ FilterEndHeaders
    \/ FilterEndGame

SpecFilter == FilterInit /\ [][FilterNext]_vars

\* ================================================================== claims

\* A call in progress is inside the function that returns to `label`.
InCall(label) == \E i \in 1..Len(stack) : stack[i] = label

\* begin_game, begin_headers, header*, end_headers, end_game.
GameShape(hs) ==
    /\ Len(hs) >= 4
    /\ hs[1].h = "begin_game"
    /\ hs[2].h = "begin_headers"
    /\ \A i \in 3..(Len(hs) - 2) : hs[i].h = "header"
    /\ hs[Len(hs) - 1].h = "end_headers"
    /\ hs[Len(hs)].h = "end_game"

\* C1: the hooks of every read_game call that returned Ok(Some(_)) are
\* begin_game, begin_headers, zero or more header, end_headers, end_game and
\* nothing else; end_headers has not fired while read_headers runs, and it is
\* the last hook fired while skip_movetext runs (so it fires after the last
\* header and before a byte of move text is consumed).
C1_HookSequence ==
    /\ \A i \in 1..Len(log) : log[i].res = "Some" => GameShape(log[i].hooks)
    /\ InCall("rg_end_headers") => \A i \in 1..Len(hooks) : hooks[i].h # "end_headers"
    /\ (InCall("rg_trailing") \/ pc = "rg_trailing") =>
          /\ hooks # <<>>
          /\ hooks[Len(hooks)].h = "end_headers"
          /\ Len(SelectSeq(hooks, LAMBDA e : e.h = "end_headers")) = 1

\* C1's case: a call returned Ok(Some(_)) after firing header hooks.
C1_Witness ==
    \E i \in 1..Len(log) : log[i].res = "Some" /\ Len(log[i].hooks) >= 6

\* C3: once a read on the source has returned an error, the read_game call
\* has returned that error: it is not running any more (no further read, no
\* further hook) and its result is Err.
C3_ErrorReturnedImmediately ==
    failed => (pc = "idle" /\ result = "Err")

\* C8: read_game returns Ok(None) only with nothing left in the buffer and in
\* the source, without an error and without having fired a hook; and when,
\* after the BOM skip and the whitespace skip, nothing is left, the call is
\* about to return Ok(None).
C8_NoMoreGames ==
    /\ \A i \in 1..Len(log) :
          log[i].res = "None" => (log[i].hooks = <<>> /\ log[i].left = 0 /\ ~log[i].failed)
    /\ (pc = "idle" /\ result = "None") => hooks = <<>>
    /\ (pc = "rg_begin" /\ buffer = <<>>) => (~ret /\ inner = <<>> /\ hooks = <<>>)

\* C8's case: a stream of nothing but whitespace and comments was read to
\* its end and the call returned Ok(None).
C8_Witness ==
    /\ result = "None"
    /\ Len(log) = 1
    /\ Len(Input) >= 2

\* fill_buffer has just been called and has not yet looked at the buffer.
FillBufferCalled == pc = "fill" /\ io = "none"

\* C10: fill_buffer called with a full chunk of unconsumed bytes buffered
\* performs no read, leaves the buffer and the source as they are, and
\* returns Ok(true) to its caller.
C10_FullBufferNoRead ==
    [][(FillBufferCalled /\ Len(buffer) >= BUFFER_SIZE) =>
          /\ io' = "none"
          /\ buffer' = buffer
          /\ inner' = inner
          /\ ret' = TRUE
          /\ pc' = Head(stack)
          /\ stack' = Tail(stack)]_vars

\* C10's case: fill_buffer has returned without a read, a full chunk being
\* buffered and the source not at its end.
C10_Witness ==
    /\ pc \in {"sw_body", "sk_body", "su_body", "rh_body", "sm_body", "rg_begin", "skip_bom"}
    /\ io = "none"
    /\ ret
    /\ Len(buffer) >= BUFFER_SIZE
    /\ inner # <<>>

\* ------------------------------------------------------- generated streams

\* The stream is one generated game.
IsOneGame == doc.kind = "pgn" /\ Len(doc.games) = 1

\* The stream is two generated games.
IsTwoGames == doc.kind = "pgn" /\ Len(doc.games) = 2

\* The header, from the byte after its `[` to its closing quote (or to its
\* line-feed), is buffered whenever its `[` is read: a fill leaves at least
\* BUFFER_SIZE bytes buffered, the `[` among them.
Fits(hd) ==
    IF hd.form = "pair"
    THEN Len(hd.tag) + (IF hd.sp THEN 1 ELSE 0) + Len(hd.val) + 2 <= BUFFER_SIZE - 1
    ELSE Len(hd.tag) + 1 <= BUFFER_SIZE - 1

\* The header events among the hooks, and the events the headers stand for.
HeaderEvents(hs) == SelectSeq(hs, LAMBDA e : e.h = "header")
Expected(hs) == [i \in 1..Len(hs) |-> HeaderHook(hs[i].tag, hs[i].val)]

\* The first read_game call has returned, no read having failed.
FirstCallDone == Len(log) >= 1 /\ ~log[1].failed

\* C2: for a well-formed game with N tag/value pairs, of any tag and value
\* length and however the source splits the stream into reads, read_game
\* returns Ok(Some(_)) having fired header exactly N times, the i-th event
\* carrying the i-th tag (less the space before the quote) and the i-th
\* value, byte for byte.
C2_HeadersExact ==
    (/\ IsOneGame
     /\ \A i \in 1..Len(doc.games[1].hs) : doc.games[1].hs[i].form = "pair"
     /\ FirstCallDone) =>
        /\ log[1].res = "Some"
        /\ HeaderEvents(log[1].hooks) = Expected(doc.games[1].hs)

\* The stream offset of the head of the buffer is 0: nothing was consumed.
AtStreamStart == Len(inner) + Len(buffer) = Len(Input)

\* C4: the BOM skip removes bytes only at the start of the whole stream;
\* the same three bytes met later, as the first bytes of a later read_game
\* call, are left in the buffer.
C4_BomOnlyAtStreamStart ==
    [][(pc = "skip_bom" /\ buffer' # buffer) => AtStreamStart]_vars

\* The results of the finished calls.
Results == [i \in 1..Len(log) |-> log[i].res]

\* C5: two well-formed games separated by exactly one blank line make the
\* calls return Some, Some, None, and the header events of each game fire in
\* the call of that game.
C5_TwoGames ==
    (/\ IsTwoGames
     /\ doc.games[2].lead = <<>>
     /\ pc = "idle"
     /\ result = "None"
     /\ \A i \in 1..Len(log) : ~log[i].failed) =>
        /\ Results = <<"Some", "Some", "None">>
        /\ HeaderEvents(log[1].hooks) = Expected(doc.games[1].hs)
        /\ HeaderEvents(log[2].hooks) = Expected(doc.games[2].hs)

\* read_headers is about to handle a `[` that a quote follows before any
\* line-feed, both buffered.
AtQuotedHeader ==
    /\ pc = "rh_body"
    /\ ret
    /\ Head(buffer) = LBRACKET
    /\ \E i \in 1..Len(buffer) - 1 :
          /\ Tail(buffer)[i] = QUOTE
          /\ \A j \in 1..(i - 1) : Tail(buffer)[j] \notin {QUOTE, LF}

\* The index of the byte that ends a value starting at index `i` of `buf`,
\* found one byte at a time: a backslash and the byte after it are passed
\* over together; the first quote or line-feed met otherwise ends the
\* value; -1 when the buffered bytes end first.
RECURSIVE ValueEnd(_, _)
ValueEnd(buf, i) ==
    IF i >= Len(buf) THEN -1
    ELSE IF At(buf, i) = BSLASH THEN ValueEnd(buf, i + 2)
    ELSE IF At(buf, i) \in {QUOTE, LF} THEN i
    ELSE ValueEnd(buf, i + 1)

\* The index after the opening quote of the header that follows the `[` at
\* the head of the buffer.
ValueStart == Memchr({QUOTE}, Tail(buffer)) + 1

\* The header event just fired.
LastHook == hooks'[Len(hooks')]

AtBareHeader(eol) ==
    /\ pc = "rh_body"
    /\ ret
    /\ Head(buffer) = LBRACKET
    /\ eol \in 0..(Len(buffer) - 2)
    /\ At(Tail(buffer), eol) = LF
    /\ \A j \in 0..(eol - 1) : At(Tail(buffer), j) \notin {QUOTE, LF}

\* C7, as claimed: every line `[tag` without a quoted value yields one
\* header event with the whole line as the tag and an empty value, the
\* headers after it being read as headers.
C7_BareHeaderAlways ==
    (/\ IsOneGame
     /\ \A i \in 1..Len(doc.games[1].hs) :
           doc.games[1].hs[i].form = "pair" => Fits(doc.games[1].hs[i])
     /\ FirstCallDone) =>
        /\ log[1].res = "Some"
        /\ HeaderEvents(log[1].hooks) = Expected(doc.games[1].hs)

\* C7, amended: when the line-feed is among the buffered bytes, exactly one
\* header event is fired, with the bytes between the `[` and the line-feed
\* as the tag and an empty value; the line and its line-feed are consumed
\* and the header loop goes on.
C7_BareHeader ==
    [][\A eol \in 0..Capacity :
          AtBareHeader(eol) =>
             /\ hooks' = Append(hooks, HeaderHook(Slice(Tail(buffer), 0, eol), <<>>))
             /\ buffer' = MoveHead(buffer, eol + 2)
             /\ pc' = "fill"
             /\ stack' = <<"rh_body">> \o stack]_vars

\* C7's case: a generated line `[a b` gave its header event and the header
\* after it was read as a header too.
C7_Witness ==
    /\ IsOneGame
    /\ Len(hooks) >= 4
    /\ hooks[3] = HeaderHook(<<"a", SP, "b">>, <<>>)
    /\ hooks[4].h = "header"

\* No read on the source has returned an error so far.
NoReadFailed == ~failed /\ \A i \in 1..Len(log) : ~log[i].failed

\* The head advance the next step makes is within the buffered bytes.
HeadAdvanceInRange ==
    /\ (pc = "su_body" /\ ret) => Memchr({needle}, buffer) + 1 <= Len(buffer)
    /\ (pc = "rh_body" /\ ret /\ Head(buffer) = LBRACKET) =>
          LET hd == ParseHeader(Tail(buffer))
          IN  ~hd.oob /\ hd.consumed <= Len(buffer) - 1
    /\ (pc = "sm_body" /\ ret) => BulkAdvance(Tail(buffer)) <= Len(buffer) - 1

\* C9: unless a read fails, no call returns Err and no index, slice or head
\* advance is out of range, whatever the bytes; a call that reads a game up
\* to the end of the input returns Ok(Some(_)) after end_game, and the call
\* after it returns Ok(None).
C9_MalformedInputRecovered ==
    /\ ~oob
    /\ HeadAdvanceInRange
    /\ NoReadFailed =>
          /\ result # "Err"
          /\ \A i \in 1..Len(log) :
                /\ log[i].res \in {"Some", "None"}
                /\ (log[i].res = "Some" /\ log[i].left = 0) =>
                      /\ log[i].hooks[Len(log[i].hooks)].h = "end_game"
                      /\ i < Len(log) => (i + 1 = Len(log) /\ log[i + 1].res = "None")
          /\ (pc = "idle" /\ result = "Some") => ENABLED ReadGame

\* C9's case: the stream ends in a header whose value is open and whose last
\* byte is a backslash; the game was returned, and then Ok(None).
C9_Witness ==
    /\ Input = <<LBRACKET, QUOTE, BSLASH>>
    /\ Results = <<"Some", "None">>

\* ------------------------------------------------------- the skip signal

\* C11: the value end_headers returns has no effect: the step read_game
\* takes on it is the same for Skip(true) and for Skip(false) -- the same
\* hook is fired, the same bytes stay buffered and unread, and the same
\* skip_movetext is entered -- so the two runs go on from one state.
C11_SkipSignalIgnored ==
    [][pc = "rg_end_headers" => (EndHeaders(TRUE) /\ EndHeaders(FALSE))]_vars

\* C11's case: end_headers has returned with move text still to skip, and
\* skip_movetext has been entered.
C11_Witness ==
    /\ pc = "fill"
    /\ Len(stack) >= 2
    /\ stack[1] = "sm_body"
    /\ stack[2] = "rg_trailing"
    /\ io = "none"
    /\ hooks # <<>>
    /\ hooks[Len(hooks)].h = "end_headers"
    /\ buffer # <<>>

\* ------------------------------------------------------ the filtering visitor

\* C12: end_headers of the filtering visitor returns Skip(true), the signal
\* to abandon the game, exactly when the pass flag is false, and Skip(false)
\* when the flag is true.
C12_AbandonWhenFailed ==
    phase = "movetext" =>
        /\ ~should_write => signal = "Skip(true)"
        /\ should_write => signal = "Skip(false)"

HeaderCalled(names) ==
    /\ phase = "headers"
    /\ headers' = headers + 1
    /\ call'.name \in names

\* The value is a decimal numeral of a non-negative integer: digits, after
\* at most one `+`.
IsNatural(v) ==
    LET ds == IF v # <<>> /\ Head(v) = "+" THEN Tail(v) ELSE v
    IN  ds # <<>> /\ \A i \in 1..Len(ds) : IsDigit(ds[i])

\* The integer a numeral denotes, of whatever size.
RECURSIVE NaturalOf(_, _)
NaturalOf(v, acc) ==
    IF v = <<>> THEN acc
    ELSE IF Head(v) = "+" THEN NaturalOf(Tail(v), acc)
    ELSE NaturalOf(Tail(v), acc * 10 + DigitValue(Head(v)))

MinimumFor(tag_name) ==
    IF tag_name = "TimeControl" THEN config.time_control_min
    ELSE IF tag_name = "WhiteElo" THEN config.white_elo_min
    ELSE config.black_elo_min

\* C14: a TimeControl, WhiteElo or BlackElo header clears the pass flag
\* exactly when its value is not a non-negative integer or is below the
\* configured minimum; a value that is a non-negative integer at or above
\* the minimum, of any magnitude, leaves the flag as it was.
C14_NumericThreshold ==
    [][HeaderCalled({"TimeControl", "WhiteElo", "BlackElo"}) =>
         IF ~IsNatural(call'.value)
            \/ NaturalOf(call'.value, 0) < MinimumFor(call'.name)
         THEN ~should_write'
         ELSE should_write' = should_write]_vars

\* The bytes hold "bot" in some letter case.
HoldsBot(v) ==
    \E i \in 1..(Len(v) - 2) :
        /\ v[i] \in {"b", "B"}
        /\ v[i + 1] \in {"o", "O"}
        /\ v[i + 2] \in {"t", "T"}

\* C15: with bot exclusion enabled a White or Black header whose value
\* contains "bot" in any letter case clears the pass flag, and with it
\* disabled the header leaves the flag as it was; a WhiteTitle or BlackTitle
\* header clears the flag only when exclusion is enabled and the value is
\* exactly "BOT", and leaves it as it was otherwise.
C15_BotExclusion ==
    /\ [][HeaderCalled({"White", "Black"}) =>
            /\ (config.exclude_bots /\ HoldsBot(call'.value)) => ~should_write'
            /\ ~config.exclude_bots => should_write' = should_write]_vars
    /\ [][HeaderCalled({"WhiteTitle", "BlackTitle"}) =>
            IF config.exclude_bots /\ call'.value = <<"B", "O", "T">>
            THEN ~should_write'
            ELSE should_write' = should_write]_vars

\* ------------------------------------------------- values and comments

\* C16: a quoted value that extends beyond the bytes buffered when its `[`
\* is read is not cut short: in a game of tag/value pairs one of which does
\* not fit the buffered bytes, every header is reported once, the long
\* value whole, and the headers after it as headers of that game.
C16_LongValueWhole ==
    (/\ IsOneGame
     /\ \A i \in 1..Len(doc.games[1].hs) : doc.games[1].hs[i].form = "pair"
     /\ \E i \in 1..Len(doc.games[1].hs) : ~Fits(doc.games[1].hs[i])
     /\ FirstCallDone) =>
        /\ log[1].res = "Some"
        /\ HeaderEvents(log[1].hooks) = Expected(doc.games[1].hs)

\* The first call consumed the first game and the blank line after it, and
\* nothing of the second game.
FirstGameConsumed ==
    /\ log[1].res = "Some"
    /\ log[1].left = Len(RenderGame(doc.games[2]))

\* C17: a `{` in the move text opens a comment that is discarded through
\* the next `}`, wherever the `{` stands, the first byte of a line included;
\* the blank line inside the comment does not end the game: the call ends
\* at the blank line after the game.
C17_BraceCommentAnywhere ==
    (/\ IsTwoGames
     /\ doc.games[1].mt = BraceCommentLine
     /\ FirstCallDone) => FirstGameConsumed

\* C18: a `;` in the move text discards the bytes through the next
\* line-feed and puts one line-feed back, so the blank line right after a
\* `;` comment is still seen as the end of the move text, and a `{` inside
\* the `;` comment opens no brace comment: the call ends at the blank line
\* after the game.
C18_LineComment ==
    (/\ IsTwoGames
     /\ doc.games[1].mt \in {MovesAndComment, CommentLine}
     /\ FirstCallDone) => FirstGameConsumed

\* ------------------------------------------------ termination and memory

\* Bytes not yet consumed before the i-th call.
LeftBefore(i) == IF i = 1 THEN Len(Input) ELSE log[i - 1].left

\* No call is running and no further call is made: the last one returned
\* Ok(None), or an error.
Done == pc = "idle" /\ result \in {"None", "Err"}

\* C19: on a finite input every read_game call returns; a call that
\* returned Ok(Some(_)), no read having failed, consumed at least one byte
\* of the input; and the repeated calls come to an end with Ok(None) (or,
\* when the source fails, with the error).
C19_Terminates ==
    /\ [](\A i \in 1..Len(log) :
            (log[i].res = "Some" /\ NoReadFailed) => log[i].left < LeftBefore(i))
    /\ [](NoReadFailed => result # "Err")
    /\ <>Done

\* C19's case: after two games the third call has returned Ok(None), no
\* read having failed.
C19_Witness ==
    /\ Done
    /\ NoReadFailed
    /\ Results = <<"Some", "Some", "None">>

\* The step is a read on the source made by fill_buffer: it delivers bytes,
\* reports the end of the input, or fails.
ReadPerformed == pc = "fill" /\ (inner' # inner \/ io' \in {"eof", "err"})

\* C20: fill_buffer reads from the source only while fewer than
\* BUFFER_SIZE bytes are buffered, and then offers the read at least
\* BUFFER_SIZE bytes of free space; and at no point of any run do the
\* unconsumed bytes in the buffer exceed 2 * BUFFER_SIZE.
C20_BufferBounded ==
    /\ [](Len(buffer) <= 2 * BUFFER_SIZE)
    /\ [][ReadPerformed =>
            /\ Len(buffer) < BUFFER_SIZE
            /\ Capacity - Len(buffer) >= BUFFER_SIZE]_vars
    /\ [][Len(buffer') > Len(buffer) =>
            \/ ReadPerformed /\ Len(buffer') <= Capacity
            \/ Len(buffer') = Len(buffer) + 1 /\ Len(buffer') < Capacity]_vars

\* C20's case: a read has filled the buffer to 2 * BUFFER_SIZE bytes.
C20_Witness ==
    /\ pc = "fill"
    /\ io = "read"
    /\ Len(buffer) = 2 * BUFFER_SIZE

====
